---- MODULE Spec2Model ----
(***************************************************************************)
(* Model of mmlite: the MdSys test-system wrapper (mdsys.py), the          *)
(* Simulation wrapper and the state/quantity helpers (simulation.py) and   *)
(* the SystemMixin (system.py).                                            *)
(*                                                                         *)
(* Python strings are modelled as sequences of one-character strings, so   *)
(* that str.title, str.replace, str.split and the substring test "in" are  *)
(* computed character by character as the interpreter computes them.       *)
(***************************************************************************)
EXTENDS Integers, Sequences, FiniteSets, TLC

VARIABLES
    pc,        \* helper-function calls: "idle" or "returned"
    call,      \* the helper call made last: function name and arguments
    res,       \* what that call returned or raised
    md,        \* the MdSys instance (mdsys.py)
    sim,       \* the Simulation instance (simulation.py)
    integs,    \* engine heap: how many integrators were constructed (ids 1..integs)
    ctxs,      \* engine heap: the contexts constructed so far
    sims,      \* engine heap: the app.Simulation objects built by MdSys.simulation
    handed,    \* the mm.Context constructions so far: who called, and whether the
               \* integrator given was owned by a context already
    op,        \* the method called last on md / sim
    ret,       \* what that method returned (and the integrators it constructed)
    err,       \* the exception that method raised ("none" if it returned)
    resets     \* number of MdSys.reset calls so far

vars == <<pc, call, res, md, sim, integs, ctxs, sims, handed, op, ret, err, resets>>

helperVars == <<pc, call, res>>
lifeVars == <<md, sim, integs, ctxs, sims, handed, op, ret, err, resets>>

----------------------------------------------------------------------------
(* Bounds of the model *)

\* longest list of quantity names handed to a helper
MaxNames == 2
\* most integrators the engine heap holds
MaxIntegrators == 3
\* most contexts the engine heap holds
MaxContexts == 3
\* most particles in the system
MaxParticles == 2
\* most MdSys.reset calls
MaxResets == 2

----------------------------------------------------------------------------
(* Python str, character by character *)

LowerCase == <<"a","b","c","d","e","f","g","h","i","j","k","l","m",
               "n","o","p","q","r","s","t","u","v","w","x","y","z">>
UpperCase == <<"A","B","C","D","E","F","G","H","I","J","K","L","M",
               "N","O","P","Q","R","S","T","U","V","W","X","Y","Z">>

IsLower(c) == \E i \in 1..26 : LowerCase[i] = c
IsUpper(c) == \E i \in 1..26 : UpperCase[i] = c
IsCased(c) == IsLower(c) \/ IsUpper(c)
IsSpace(c) == c = " "

ToUpper(c) == IF IsLower(c) THEN UpperCase[CHOOSE i \in 1..26 : LowerCase[i] = c] ELSE c
ToLower(c) == IF IsUpper(c) THEN LowerCase[CHOOSE i \in 1..26 : UpperCase[i] = c] ELSE c

\* str.title(): a cased character is upper-cased when the character before it
\* is not cased (or there is none), lower-cased otherwise; others are kept.
title(a) ==
    [i \in 1..Len(a) |->
        IF ~IsCased(a[i]) THEN a[i]
        ELSE IF i = 1 \/ ~IsCased(a[i - 1]) THEN ToUpper(a[i]) ELSE ToLower(a[i])]

\* str.replace(c, ''): every occurrence of the character c removed
RECURSIVE remove(_, _)
remove(a, c) ==
    IF a = <<>> THEN <<>>
    ELSE IF Head(a) = c THEN remove(Tail(a), c)
    ELSE <<Head(a)>> \o remove(Tail(a), c)

\* str.split(): the maximal runs of non-whitespace characters, in order
RECURSIVE splitFrom(_, _)
splitFrom(a, word) ==
    IF a = <<>> THEN (IF word = <<>> THEN <<>> ELSE <<word>>)
    ELSE IF IsSpace(Head(a))
         THEN (IF word = <<>> THEN <<>> ELSE <<word>>) \o splitFrom(Tail(a), <<>>)
         ELSE splitFrom(Tail(a), Append(word, Head(a)))

split(a) == splitFrom(a, <<>>)

\* a in b, for two strings: a occurs in b as a contiguous substring
IsSubstring(a, b) ==
    \E i \in 0..(Len(b) - Len(a)) : SubSeq(b, i + 1, i + Len(a)) = a

camelcase_keeps_underscores(a) == title(a)

camelcase(a) == remove(title(a), "_")

----------------------------------------------------------------------------
(* Quantity names and the engine's State and Context.getState *)

sp == <<" ">>
get == <<"g","e","t">>
n_forces == <<"f","o","r","c","e","s">>
n_positions == <<"p","o","s","i","t","i","o","n","s">>
n_velocities == <<"v","e","l","o","c","i","t","i","e","s">>
n_periodic_box_vectors ==
    <<"p","e","r","i","o","d","i","c","_","b","o","x","_","v","e","c","t","o","r","s">>
n_potential_energy ==
    <<"p","o","t","e","n","t","i","a","l","_","e","n","e","r","g","y">>
n_energy == <<"e","n","e","r","g","y">>
\* names that are no quantity: a proper substring of the allow-list string,
\* a capitalised spelling, and an unknown word
n_force == <<"f","o","r","c","e">>
n_Positions == <<"P","o","s","i","t","i","o","n","s">>
n_foo == <<"f","o","o">>

\* the literal of state_property's test
AllowString ==
    n_forces \o sp \o n_periodic_box_vectors \o sp \o n_positions \o sp \o n_velocities

\* the accessors of an engine State that the source calls or names
StateAccessors ==
    { get \o <<"F","o","r","c","e","s">>,
      get \o <<"P","o","s","i","t","i","o","n","s">>,
      get \o <<"V","e","l","o","c","i","t","i","e","s">>,
      get \o <<"P","e","r","i","o","d","i","c","B","o","x","V","e","c","t","o","r","s">>,
      get \o <<"P","o","t","e","n","t","i","a","l","E","n","e","r","g","y">>,
      get \o <<"K","i","n","e","t","i","c","E","n","e","r","g","y">> }

\* the keyword arguments Context.getState accepts besides enforcePeriodicBox
\* and groups: one per valid value of `data`
GetStateKeywords ==
    { get \o <<"P","o","s","i","t","i","o","n","s">>,
      get \o <<"V","e","l","o","c","i","t","i","e","s">>,
      get \o <<"F","o","r","c","e","s">>,
      get \o <<"E","n","e","r","g","y">>,
      get \o <<"P","a","r","a","m","e","t","e","r","s">>,
      get \o <<"P","a","r","a","m","e","t","e","r","D","e","r","i","v","a","t","i","v","e","s">> }

----------------------------------------------------------------------------
(* Values: a helper's argument, and what a call returns or raises *)

Str(s) == [kind |-> "str", s |-> s]
Lst(xs) == [kind |-> "list", xs |-> xs]
None == [kind |-> "none"]

\* what accessor m returned when called with kwargs {} or {asNumpy: True}
Value(m, np) == [kind |-> "value", method |-> m, asNumpy |-> np]
List(items) == [kind |-> "list", items |-> items]
Raise(e) == [kind |-> "raise", error |-> e]
\* the State that context.getState(**flags) returns
GotState(flags) == [kind |-> "state", flags |-> flags]
\* the State object that was passed in, handed back
SameState == [kind |-> "same"]

IsRaise(r) == r.kind = "raise"

\* the results of a loop or comprehension over items: the first exception
\* raised ends it, otherwise every item's result is collected
Collected(items) ==
    IF \E i \in 1..Len(items) : IsRaise(items[i])
    THEN items[CHOOSE i \in 1..Len(items) :
                   /\ IsRaise(items[i])
                   /\ \A j \in 1..(i - 1) : ~IsRaise(items[j])]
    ELSE List(items)

\* getattr(state, method_name)(**kwargs) for a string that split() leaves whole
state_property_one(state, name) ==
    LET method_name == get \o camelcase(name)
    IN  IF method_name \notin state THEN Raise("AttributeError")
        ELSE Value(method_name, IsSubstring(name, AllowString))

\* state_property(state, property_name), state being the set of accessors
\* the object has
RECURSIVE state_property(_, _)
state_property(state, property_name) ==
    IF property_name.kind = "str" /\ Len(split(property_name.s)) = 1
    THEN state_property_one(state, property_name.s)
    ELSE LET names == IF property_name.kind = "str"
                      THEN split(property_name.s)
                      ELSE property_name.xs
         IN  Collected([i \in 1..Len(names) |-> state_property(state, Str(names[i]))])

state_data_always_list(state, data) ==
    LET names == IF data.kind = "str" THEN split(data.s) ELSE data.xs
    IN  Collected([i \in 1..Len(names) |-> state_property(state, Str(names[i]))])

state_data(state, data) ==
    LET names == IF data.kind = "str" THEN split(data.s) ELSE data.xs
        result == Collected([i \in 1..Len(names) |->
                                 state_property(state, Str(names[i]))])
    IN  IF IsRaise(result) THEN result
        ELSE IF Len(names) > 1 THEN result
        ELSE IF Len(names) = 0 THEN Raise("IndexError")
        ELSE result.items[1]

simulation_state_lenient(simulation, data) ==
    IF simulation = "State" THEN SameState
    ELSE LET names == IF data.kind = "str" THEN split(data.s)
                      ELSE IF data.kind = "list" THEN data.xs ELSE <<>>
             flags == {get \o camelcase(names[i]) : i \in 1..Len(names)}
         IN  GotState(flags \cap GetStateKeywords)

\* simulation_state(simulation, data): simulation is a State, a Simulation
\* or a Context
simulation_state(simulation, data) ==
    IF simulation = "State" THEN SameState
    ELSE LET names == IF data.kind = "str" THEN split(data.s)
                      ELSE IF data.kind = "list" THEN data.xs ELSE <<>>
             flags == {get \o camelcase(names[i]) : i \in 1..Len(names)}
         IN  IF flags \subseteq GetStateKeywords
             THEN GotState(flags)
             ELSE Raise("TypeError")

----------------------------------------------------------------------------
(* The arguments the helpers are called with *)

Names == { n_forces, n_positions, n_velocities, n_periodic_box_vectors,
           n_potential_energy, n_energy, n_force, n_Positions, n_foo }

\* every list of 1..MaxNames names
NameLists == UNION { [1..n -> Names] : n \in 1..MaxNames }

RECURSIVE Joined(_)
Joined(ns) ==
    IF Len(ns) = 0 THEN <<>>
    ELSE IF Len(ns) = 1 THEN ns[1]
    ELSE ns[1] \o sp \o Joined(Tail(ns))

Padded(s, lead, trail) ==
    (IF lead THEN sp ELSE <<>>) \o s \o (IF trail THEN sp ELSE <<>>)

\* an argument together with the names the caller means by it
Arguments ==
    { [arg |-> Lst(ns), names |-> ns] : ns \in NameLists }
    \cup { [arg |-> Str(Padded(Joined(ns), l, t)), names |-> ns] :
               ns \in NameLists, l \in BOOLEAN, t \in BOOLEAN }
    \cup { [arg |-> Lst(<<>>), names |-> <<>>], [arg |-> Str(<<>>), names |-> <<>>] }

NoCall == [fn |-> "none"]
NoRes == [kind |-> "none"]

----------------------------------------------------------------------------
(* Helper calls *)

CallStateProperty ==
    /\ pc = "idle"
    /\ \E a \in Arguments :
         /\ call' = [fn |-> "state_property", arg |-> a.arg, names |-> a.names,
                     target |-> "State"]
         /\ res' = state_property(StateAccessors, a.arg)
    /\ pc' = "returned"
    /\ UNCHANGED lifeVars

CallStateData ==
    /\ pc = "idle"
    /\ \E a \in Arguments :
         /\ call' = [fn |-> "state_data", arg |-> a.arg, names |-> a.names,
                     target |-> "State"]
         /\ res' = state_data(StateAccessors, a.arg)
    /\ pc' = "returned"
    /\ UNCHANGED lifeVars

CallSimulationState ==
    /\ pc = "idle"
    /\ \E a \in Arguments \cup {[arg |-> None, names |-> <<>>]},
          target \in {"State", "Simulation", "Context"} :
         /\ call' = [fn |-> "simulation_state", arg |-> a.arg, names |-> a.names,
                     target |-> target]
         /\ res' = simulation_state(target, a.arg)
    /\ pc' = "returned"
    /\ UNCHANGED lifeVars

\* the caller takes the result (or the exception) and may call again
HelperReturn ==
    /\ pc = "returned"
    /\ pc' = "idle"
    /\ call' = NoCall
    /\ res' = NoRes
    /\ UNCHANGED lifeVars

----------------------------------------------------------------------------
(* Engine objects and keyword arguments of the life-cycle part *)

Quantity(v) == [kind |-> "quantity", name |-> v]
Class(n) == [kind |-> "class", name |-> n]
Name(n) == [kind |-> "str", name |-> n]

\* the method called last, with the argument that decides its outcome
Op(method, arg) == [method |-> method, arg |-> arg]

\* what a method returned; made: the integrators it constructed on the way
NoRet == [kind |-> "none", id |-> 0, items |-> <<>>, made |-> <<>>]
Obj(k, i, made) == [kind |-> k, id |-> i, items |-> <<>>, made |-> made]
Items(xs) == [kind |-> "list", id |-> 0, items |-> xs, made |-> <<>>]
Failed(made) == [kind |-> "none", id |-> 0, items |-> <<>>, made |-> made]

\* the attributes of the module mm.openmm that the source imports
OpenmmAttributes == {"VerletIntegrator", "LangevinIntegrator", "State"}

VerletIntegrator(dt) == [kind |-> "Verlet", args |-> <<dt>>]
LangevinIntegrator(temperature, friction, dt) ==
    [kind |-> "Langevin", args |-> <<temperature, friction, dt>>]

\* mmlite.defaults, which simulation.py reads
defaults_temperature == Quantity("defaults.temperature")
defaults_friction == Quantity("defaults.friction")

\* kwargs.pop(key, default) and the kwargs left after it
pop(kwargs, key, default) == IF key \in DOMAIN kwargs THEN kwargs[key] ELSE default
without(kwargs, key) == [k \in (DOMAIN kwargs) \ {key} |-> kwargs[k]]

\* mm.Context(system, integrator): the engine refuses an integrator that a
\* context owns already
Context(contexts, i) ==
    IF \E c \in 1..Len(contexts) : contexts[c].integ = i
    THEN [contexts |-> contexts, err |-> "Exception"]
    ELSE [contexts |-> Append(contexts, [integ |-> i, pos |-> "unset", vel |-> "unset"]),
          err |-> "none"]

\* context.setPositions(xp)
setPositions(contexts, c, xp) == [contexts EXCEPT ![c].pos = xp]

\* context.setVelocitiesToTemperature(temperature, SEED)
setVelocitiesToTemperature(contexts, c) == [contexts EXCEPT ![c].vel = "thermal"]

\* context.setState(XmlSerializer.deserialize(file))
setState(contexts, c) == [contexts EXCEPT ![c].pos = "file", ![c].vel = "file"]

\* one record of `handed`: who gave integrator i to mm.Context and whether a
\* context of `contexts` owned it at that moment
Handed(by, contexts, i) ==
    [by |-> by, bound |-> \E c \in 1..Len(contexts) : contexts[c].integ = i]

\* System.getNumParticles(*args): the count; it takes no argument
getNumParticles(system, args) ==
    IF args = <<>> THEN Items(<<Len(system)>>) ELSE Raise("TypeError")

n_particles(system) == getNumParticles(system, <<>>).items[1]

\* the masses property of MdSys and of SystemMixin
masses(system) ==
    LET each == [i \in 1..n_particles(system) |-> getNumParticles(system, <<i - 1>>)]
    IN  IF \E i \in 1..Len(each) : IsRaise(each[i])
        THEN Raise("TypeError")
        ELSE Items([i \in 1..Len(each) |-> each[i].items[1]])

\* the systems: particle 0 is an oxygen, the others are hydrogens
Systems == { [i \in 1..n |-> IF i = 1 THEN "16 amu" ELSE "1 amu"] : n \in 0..MaxParticles }

----------------------------------------------------------------------------
(* MdSys (mdsys.py) *)

NewMd == [constructed |-> FALSE]

MdKeys == {"integrator", "dt", "friction", "temperature", "platform"}

MdValues(key) ==
    CASE key = "integrator" ->
            { Class("LangevinIntegrator"), Class("BrownianIntegrator"),
              Name("LangevinIntegrator"), Name("State"), Name("foo") }
      [] key = "dt" -> { Quantity("1.0*femtoseconds") }
      [] key = "friction" -> { Quantity("5.0/picosecond") }
      [] key = "temperature" -> { Quantity("350.0*kelvin") }
      [] OTHER -> { Quantity("CPU") }

MdKwargs ==
    UNION { { f \in [K -> UNION {MdValues(k) : k \in K}] :
                \A k \in K : f[k] \in MdValues(k) } : K \in SUBSET MdKeys }

MdSys_init_swapped_defaults(kwargs) ==
    LET given == pop(kwargs, "integrator", Class("VerletIntegrator"))
        dt == pop(kwargs, "dt", Quantity("91.0/picosecond"))
        friction == pop(kwargs, "friction", Quantity("2.0*femtoseconds"))
        temperature == pop(kwargs, "temperature", Quantity("298.0*kelvin"))
        rest == without(without(without(without(kwargs,
                    "integrator"), "dt"), "friction"), "temperature")
    IN  IF given.kind = "str" /\ given.name \notin OpenmmAttributes
        THEN [obj |-> NewMd, err |-> "AttributeError"]
        ELSE [obj |-> [constructed |-> TRUE,
                       integrator_class |-> Class(given.name),
                       dt |-> dt, friction |-> friction, temperature |-> temperature,
                       base_kwargs |-> rest, simulation |-> 0],
              err |-> "none"]

\* MdSys.__init__(**kwargs): the object, or the exception raised.
\* base_kwargs: what TestSystem.__init__ received.
MdSys_init(kwargs) ==
    LET given == pop(kwargs, "integrator", Class("VerletIntegrator"))
        dt == pop(kwargs, "dt", Quantity("2.0*femtoseconds"))
        friction == pop(kwargs, "friction", Quantity("91.0/picosecond"))
        temperature == pop(kwargs, "temperature", Quantity("298.0*kelvin"))
        rest == without(without(without(without(kwargs,
                    "integrator"), "dt"), "friction"), "temperature")
    IN  IF given.kind = "str" /\ given.name \notin OpenmmAttributes
        THEN [obj |-> NewMd, err |-> "AttributeError"]
        ELSE [obj |-> [constructed |-> TRUE,
                       integrator_class |-> Class(given.name),
                       dt |-> dt, friction |-> friction, temperature |-> temperature,
                       base_kwargs |-> rest, simulation |-> 0],
              err |-> "none"]

\* MdSys.integrator(): a fresh integrator, or ValueError
MdSys_integrator(self) ==
    IF self.integrator_class.name = "VerletIntegrator"
    THEN [new |-> <<VerletIntegrator(self.dt)>>, err |-> "none"]
    ELSE IF self.integrator_class.name = "LangevinIntegrator"
    THEN [new |-> <<LangevinIntegrator(self.temperature, self.friction, self.dt)>>,
          err |-> "none"]
    ELSE [new |-> <<>>, err |-> "ValueError"]

MdInit ==
    /\ ~md.constructed
    /\ \E kwargs \in MdKwargs :
         LET r == MdSys_init(kwargs)
         IN  /\ md' = r.obj
             /\ err' = r.err
             /\ op' = Op("MdSys.__init__", kwargs)
    /\ ret' = NoRet
    /\ UNCHANGED <<sim, integs, ctxs, sims, handed, resets>>
    /\ UNCHANGED helperVars

MdIntegrator ==
    /\ md.constructed
    /\ LET r == MdSys_integrator(md)
       IN  /\ integs' = integs + Len(r.new)
           /\ err' = r.err
           /\ ret' = IF r.err = "none" THEN Obj("integrator", integs + 1, r.new)
                     ELSE NoRet
    /\ op' = Op("MdSys.integrator", "")
    /\ UNCHANGED <<md, sim, ctxs, sims, handed, resets>>
    /\ UNCHANGED helperVars
    /\ integs' <= MaxIntegrators

MdLangevinIntegrator ==
    /\ md.constructed
    /\ integs' = integs + 1
    /\ ret' = Obj("integrator", integs + 1,
                  <<LangevinIntegrator(md.temperature, md.friction, md.dt)>>)
    /\ err' = "none"
    /\ op' = Op("MdSys.langevin_integrator", "")
    /\ UNCHANGED <<md, sim, ctxs, sims, handed, resets>>
    /\ UNCHANGED helperVars
    /\ integs' <= MaxIntegrators

MdVerletIntegrator ==
    /\ md.constructed
    /\ integs' = integs + 1
    /\ ret' = Obj("integrator", integs + 1, <<VerletIntegrator(md.dt)>>)
    /\ err' = "none"
    /\ op' = Op("MdSys.verlet_integrator", "")
    /\ UNCHANGED <<md, sim, ctxs, sims, handed, resets>>
    /\ UNCHANGED helperVars
    /\ integs' <= MaxIntegrators

\* MdSys.context(xp): the integrator is made first, mm.Context then binds it.
\* The positions of a test system are set, so the elif branch is taken when
\* xp is None.
\* platform and properties are only appended to the arguments of mm.Context
\* and change nothing that is recorded here.
MdContext ==
    /\ md.constructed
    /\ \E xp \in {"None", "xp"} :
         LET r == MdSys_integrator(md)
             i == integs + 1
             made == Context(ctxs, i)
             c == Len(made.contexts)
         IN  /\ integs' = integs + Len(r.new)
             /\ IF r.err = "none"
                THEN /\ err' = made.err
                     /\ ctxs' = setPositions(made.contexts, c,
                                             IF xp # "None" THEN xp ELSE "sys")
                     /\ handed' = handed \cup {Handed("MdSys.context", ctxs, i)}
                     /\ ret' = Obj("context", c, r.new)
                ELSE /\ err' = r.err
                     /\ UNCHANGED <<ctxs, handed>>
                     /\ ret' = NoRet
    /\ op' = Op("MdSys.context", "")
    /\ UNCHANGED <<md, sim, sims, resets>>
    /\ UNCHANGED helperVars
    /\ integs' <= MaxIntegrators
    /\ Len(ctxs') <= MaxContexts

\* The simulation property: builds and caches on a falsy _simulation.
\* [md |-> the object after the access, new |-> the integrator made (if any),
\*  err |-> the exception raised]
MdSys_simulation_always_builds(self, sim_id) ==
    LET r == MdSys_integrator(self)
    IN  IF r.err # "none"
        THEN [md |-> self, new |-> <<>>, err |-> r.err]
        ELSE [md |-> [self EXCEPT !.simulation = sim_id], new |-> r.new, err |-> "none"]

MdSys_simulation(self, sim_id) ==
    IF self.simulation = 0
    THEN LET r == MdSys_integrator(self)
         IN  IF r.err # "none"
             THEN [md |-> self, new |-> <<>>, err |-> r.err]
             ELSE [md |-> [self EXCEPT !.simulation = sim_id], new |-> r.new,
                   err |-> "none"]
    ELSE [md |-> self, new |-> <<>>, err |-> "none"]

\* self.simulation, read directly or by step, minimize and reporters.
\* app.Simulation(topology, system, integrator) makes the context that binds
\* the integrator; positions and velocities are then set on it.
MdSimulationAccess ==
    /\ md.constructed
    /\ \E via \in {"MdSys.simulation", "MdSys.step", "MdSys.minimize", "MdSys.reporters"} :
         op' = Op(via, "")
    /\ LET r == MdSys_simulation(md, Len(sims) + 1)
           i == integs + 1
           c == Len(ctxs) + 1
       IN  /\ md' = r.md
           /\ err' = r.err
           /\ integs' = integs + Len(r.new)
           /\ IF r.new # <<>>
              THEN /\ ctxs' = setVelocitiesToTemperature(
                                  setPositions(Context(ctxs, i).contexts, c, "sys"), c)
                   /\ handed' = handed \cup {Handed("MdSys.simulation", ctxs, i)}
                   /\ sims' = Append(sims, [context |-> c, integrator |-> i])
              ELSE UNCHANGED <<ctxs, handed, sims>>
           /\ ret' = IF r.err = "none" THEN Obj("simulation", r.md.simulation, r.new)
                     ELSE NoRet
    /\ UNCHANGED <<sim, resets>>
    /\ UNCHANGED helperVars
    /\ integs' <= MaxIntegrators
    /\ Len(ctxs') <= MaxContexts

MdSys_reset(self) == [self EXCEPT !.simulation = 0]

MdReset ==
    /\ md.constructed
    /\ resets < MaxResets
    /\ md' = MdSys_reset(md)
    /\ resets' = resets + 1
    /\ op' = Op("MdSys.reset", "")
    /\ ret' = NoRet
    /\ err' = "none"
    /\ UNCHANGED <<sim, integs, ctxs, sims, handed>>
    /\ UNCHANGED helperVars

\* MdSys.masses, self.system being the system the subclass has set
MdMasses ==
    /\ md.constructed
    /\ \E system \in Systems :
         LET r == masses(system)
         IN  /\ ret' = IF IsRaise(r) THEN NoRet ELSE r
             /\ err' = IF IsRaise(r) THEN r.error ELSE "none"
             /\ op' = Op("MdSys.masses", system)
    /\ UNCHANGED <<md, sim, integs, ctxs, sims, handed, resets>>
    /\ UNCHANGED helperVars

----------------------------------------------------------------------------
(* Simulation (simulation.py) *)

NewSim == [constructed |-> FALSE]

\* Simulation.create_integrator(name, dt, **kwargs)
create_integrator(name, dt, kwargs) ==
    IF name = "verlet"
    THEN [new |-> <<VerletIntegrator(dt)>>, err |-> "none"]
    ELSE IF name = "langevin"
    THEN [new |-> <<LangevinIntegrator(pop(kwargs, "temperature", defaults_temperature),
                                       pop(kwargs, "friction", defaults_friction),
                                       dt)>>,
          err |-> "none"]
    ELSE [new |-> <<>>, err |-> "ValueError"]

DefaultIntegrator == create_integrator("verlet", Quantity("1*femtoseconds"), <<>>).new

SimKwargs ==
    { <<>>, [k \in {"temperature", "friction"} |->
                IF k = "temperature" THEN Quantity("350.0*kelvin")
                ELSE Quantity("5.0/picosecond")] }

SimCreateIntegrator ==
    /\ \E name \in {"verlet", "langevin", "foo"},
          dt \in {Quantity("1*femtoseconds")},
          kwargs \in SimKwargs :
         LET r == create_integrator(name, dt, kwargs)
         IN  /\ integs' = integs + Len(r.new)
             /\ err' = r.err
             /\ ret' = IF r.err = "none" THEN Obj("integrator", integs + 1, r.new)
                       ELSE NoRet
             /\ op' = Op("Simulation.create_integrator", name)
    /\ UNCHANGED <<md, sim, ctxs, sims, handed, resets>>
    /\ UNCHANGED helperVars
    /\ integs' <= MaxIntegrators

\* The integrator property: [self |-> the object after the read,
\* made |-> the integrator constructed by the read, id |-> the one returned]
Simulation_integrator(self, heap) ==
    IF self.integrator = 0
    THEN [self |-> [self EXCEPT !.integrator = heap + 1],
          made |-> DefaultIntegrator,
          id |-> heap + 1]
    ELSE [self |-> self, made |-> <<>>, id |-> self.integrator]

Truthy(q) == q.name # "None"

\* Simulation.setup_context(xp, temperature, state=state), heap being the
\* number of integrators and contexts the contexts of the engine (platform
\* and properties are only appended to the arguments of mm.Context):
\* [self, ctxs |-> after the call, made |-> integrators constructed,
\*  given |-> the record for `handed`, err, ret]
setup_context(self, heap, contexts, xp, temperature, state) ==
    LET g == Simulation_integrator(self, heap)
        made == Context(contexts, g.id)
        c == Len(made.contexts)
        placed == IF xp # "None" THEN setPositions(made.contexts, c, xp)
                  ELSE made.contexts
        warmed == IF Truthy(temperature) THEN setVelocitiesToTemperature(placed, c)
                  ELSE placed
        \* self.context is still the context held before this call
        loaded == IF state # "None" THEN setState(warmed, self.context) ELSE warmed
        given == Handed("Simulation.setup_context", contexts, g.id)
    IN  IF made.err # "none"
        THEN [self |-> g.self, made |-> g.made, ctxs |-> contexts,
              given |-> given, err |-> made.err, ret |-> Failed(g.made)]
        ELSE [self |-> [g.self EXCEPT !.context = c], made |-> g.made,
              ctxs |-> loaded, given |-> given, err |-> "none",
              ret |-> Obj("context", c, g.made)]

\* Simulation.__init__(sys, integrator, state=state).  The base constructor
\* stores the integrator through the property's setter, makes a context with
\* self.integrator and loads the state file into that context.
SimInit ==
    /\ ~sim.constructed
    /\ \E integrator \in 0..integs, state \in {"None", "file"} :
         LET self0 == [constructed |-> TRUE, integrator |-> integrator,
                       context |-> 0, state_file |-> state]
             g == Simulation_integrator(self0, integs)
             base == Context(ctxs, g.id)
             c0 == Len(base.contexts)
             based == IF state # "None" THEN setState(base.contexts, c0)
                      ELSE base.contexts
             given0 == Handed("app.Simulation.__init__", ctxs, g.id)
             self1 == [g.self EXCEPT !.integrator = 0, !.context = c0]
             r == setup_context(self1, integs + Len(g.made), based, "sys",
                                defaults_temperature, state)
         IN  IF base.err # "none"
             THEN /\ sim' = sim
                  /\ integs' = integs + Len(g.made)
                  /\ ctxs' = ctxs
                  /\ handed' = handed \cup {given0}
                  /\ err' = base.err
                  /\ ret' = Failed(g.made)
             ELSE /\ sim' = r.self
                  /\ integs' = integs + Len(g.made) + Len(r.made)
                  /\ ctxs' = r.ctxs
                  /\ handed' = handed \cup {given0, r.given}
                  /\ err' = r.err
                  /\ ret' = Failed(g.made \o r.made)
         /\ op' = Op("Simulation.__init__", state)
    /\ UNCHANGED <<md, sims, resets>>
    /\ UNCHANGED helperVars
    /\ integs' <= MaxIntegrators
    /\ Len(ctxs') <= MaxContexts

\* a later call of setup_context on the same object
SimSetupContext ==
    /\ sim.constructed
    /\ \E xp \in {"None", "xp"}, temperature \in {defaults_temperature, Quantity("None")},
          state \in {"None", "file"} :
         LET r == setup_context(sim, integs, ctxs, xp, temperature, state)
         IN  /\ sim' = r.self
             /\ integs' = integs + Len(r.made)
             /\ ctxs' = r.ctxs
             /\ handed' = handed \cup {r.given}
             /\ err' = r.err
             /\ ret' = r.ret
             /\ op' = Op("Simulation.setup_context", state)
    /\ UNCHANGED <<md, sims, resets>>
    /\ UNCHANGED helperVars
    /\ integs' <= MaxIntegrators
    /\ Len(ctxs') <= MaxContexts

\* sim.integrator = value, for an integrator made before
SimSetIntegrator ==
    /\ sim.constructed
    /\ \E value \in 1..integs :
         sim' = [sim EXCEPT !.integrator = value]
    /\ op' = Op("Simulation.integrator.setter", "")
    /\ ret' = NoRet
    /\ err' = "none"
    /\ UNCHANGED <<md, integs, ctxs, sims, handed, resets>>
    /\ UNCHANGED helperVars

\* SystemMixin.masses, on the system of a Water or Villin instance
MixinMasses ==
    /\ \E system \in Systems :
         LET r == masses(system)
         IN  /\ ret' = IF IsRaise(r) THEN NoRet ELSE r
             /\ err' = IF IsRaise(r) THEN r.error ELSE "none"
             /\ op' = Op("SystemMixin.masses", system)
    /\ UNCHANGED <<md, sim, integs, ctxs, sims, handed, resets>>
    /\ UNCHANGED helperVars

----------------------------------------------------------------------------
(* Specifications *)

Init ==
    /\ pc = "idle"
    /\ call = NoCall
    /\ res = NoRes
    /\ md = NewMd
    /\ sim = NewSim
    /\ integs = 0
    /\ ctxs = <<>>
    /\ sims = <<>>
    /\ handed = {}
    /\ op = Op("none", "")
    /\ ret = NoRet
    /\ err = "none"
    /\ resets = 0

\* the quantity helpers of simulation.py
NextHelpers ==
    \/ CallStateProperty
    \/ CallStateData
    \/ CallSimulationState
    \/ HelperReturn

SpecHelpers == Init /\ [][NextHelpers]_vars

\* one MdSys instance and the engine objects it makes
NextMd ==
    \/ MdInit
    \/ MdIntegrator
    \/ MdLangevinIntegrator
    \/ MdVerletIntegrator
    \/ MdContext
    \/ MdSimulationAccess
    \/ MdReset
    \/ MdMasses
    \/ SimCreateIntegrator

SpecMd == Init /\ [][NextMd]_vars

\* one Simulation instance and the engine objects it makes
NextSim ==
    \/ SimCreateIntegrator
    \/ SimInit
    \/ SimSetupContext
    \/ SimSetIntegrator
    \/ MixinMasses

SpecSim == Init /\ [][NextSim]_vars

----------------------------------------------------------------------------
(* Properties of the quantity helpers (checked under SpecHelpers) *)

\* a non-empty string without whitespace
IsSingleName(s) == s # <<>> /\ \A i \in 1..Len(s) : ~IsSpace(s[i])

\* the underscore-separated words of a name, in order
RECURSIVE WordsFrom(_, _)
WordsFrom(s, word) ==
    IF s = <<>> THEN <<word>>
    ELSE IF Head(s) = "_" THEN <<word>> \o WordsFrom(Tail(s), <<>>)
    ELSE WordsFrom(Tail(s), Append(word, Head(s)))

\* a word with its first letter in upper case and the others in lower case
Capitalised(w) ==
    [i \in 1..Len(w) |-> IF i = 1 THEN ToUpper(w[i]) ELSE ToLower(w[i])]

RECURSIVE Concatenated(_)
Concatenated(ws) == IF ws = <<>> THEN <<>> ELSE Head(ws) \o Concatenated(Tail(ws))

\* 'get' followed by the capitalised words of the name
ExpectedAccessor(name) ==
    LET ws == WordsFrom(name, <<>>)
    IN  get \o Concatenated([i \in 1..Len(ws) |-> Capitalised(ws[i])])

\* the four quantities whose accessor takes asNumpy=True
AllowList == {n_forces, n_periodic_box_vectors, n_positions, n_velocities}

\* what state_property gives for each of the names meant by the call
EachProperty ==
    [i \in 1..Len(call.names) |-> state_property(StateAccessors, Str(call.names[i]))]

HasWhitespace(s) == \E i \in 1..Len(s) : IsSpace(s[i])

\* C3: for a single whitespace-free name, state_property calls the accessor
\* 'get' + the capitalised words of the name, with asNumpy=True exactly when
\* the name is forces, periodic_box_vectors, positions or velocities, and
\* with no argument otherwise.
C3_AccessorCall ==
    (/\ pc = "returned"
     /\ call.fn = "state_property"
     /\ call.arg.kind = "str"
     /\ IsSingleName(call.arg.s))
    => LET m == ExpectedAccessor(call.arg.s)
           expected == Value(m, call.arg.s \in AllowList)
       IN  /\ res.kind \in {"value", "raise"}
           /\ m \in StateAccessors => res = expected
           /\ res.kind = "value" => res = expected

\* C3 witness: periodic_box_vectors was asked for and getPeriodicBoxVectors
\* was called with asNumpy=True.
C3_Witness ==
    /\ pc = "returned"
    /\ call.fn = "state_property"
    /\ call.arg = Str(n_periodic_box_vectors)
    /\ res = Value(get \o <<"P","e","r","i","o","d","i","c","B","o","x",
                            "V","e","c","t","o","r","s">>, TRUE)

\* C4 as stated: a call that names something that is no state quantity fails
\* with a ValueError.
C4_Original ==
    (/\ pc = "returned"
     /\ \E i \in 1..Len(call.names) :
          ExpectedAccessor(call.names[i]) \notin (StateAccessors \cup GetStateKeywords))
    => res = Raise("ValueError")

\* C4 as amended: state_property and state_data raise AttributeError when a
\* name has no accessor on the state; simulation_state on a simulation or a
\* context raises TypeError when a name is no getState keyword, and on a State
\* returns that State whatever the names; the exception is what the caller
\* gets.
C4_Amended ==
    pc = "returned" =>
        /\ (/\ call.fn \in {"state_property", "state_data"}
            /\ \E i \in 1..Len(call.names) :
                 ExpectedAccessor(call.names[i]) \notin StateAccessors)
           => res = Raise("AttributeError")
        /\ (/\ call.fn = "simulation_state"
            /\ call.target # "State"
            /\ \E i \in 1..Len(call.names) :
                 ExpectedAccessor(call.names[i]) \notin GetStateKeywords)
           => res = Raise("TypeError")
        /\ (call.fn = "simulation_state" /\ call.target = "State")
           => res = SameState

\* C4 witness: simulation_state on a context with the name foo raised
\* TypeError.
C4_Witness ==
    /\ pc = "returned"
    /\ call.fn = "simulation_state"
    /\ call.target = "Context"
    /\ call.names = <<n_foo>>
    /\ res = Raise("TypeError")

\* C7: state_data returns the value itself when one quantity is named and,
\* when n > 1 are named, the list of the n values in the order given, each
\* being what state_property gives for that name.
C7_StateData ==
    (/\ pc = "returned"
     /\ call.fn = "state_data"
     /\ Len(call.names) >= 1)
    => IF \E i \in 1..Len(call.names) : IsRaise(EachProperty[i])
       THEN IsRaise(res)
       ELSE IF Len(call.names) = 1
            THEN res = EachProperty[1]
            ELSE res = List(EachProperty)

\* C7 witness: one name given in a one-element list came back as the bare
\* value.
C7_Witness ==
    /\ pc = "returned"
    /\ call.fn = "state_data"
    /\ call.arg = Lst(<<n_potential_energy>>)
    /\ res = Value(get \o <<"P","o","t","e","n","t","i","a","l",
                            "E","n","e","r","g","y">>, FALSE)

\* C8: for a list of names, or a string containing whitespace, state_property
\* returns the list of the values of the names, in order.
C8_ListOfValues ==
    (/\ pc = "returned"
     /\ call.fn = "state_property"
     /\ \/ call.arg.kind = "list"
        \/ call.arg.kind = "str" /\ HasWhitespace(call.arg.s))
    => IF \E i \in 1..Len(call.names) : IsRaise(EachProperty[i])
       THEN IsRaise(res)
       ELSE res = List(EachProperty)

----------------------------------------------------------------------------
(* Properties of MdSys (checked under SpecMd) *)

AccessMethods == {"MdSys.simulation", "MdSys.step", "MdSys.minimize", "MdSys.reporters"}

ValidIntegratorClasses == {"VerletIntegrator", "LangevinIntegrator"}

\* C1: a simulation is constructed only by an access that finds none cached
\* (the first one, or the first after a reset); that access returns the new
\* simulation, which is none of the earlier ones; every other access returns
\* the cached one and constructs nothing; reset drops the cached one.
C1_LazySimulation ==
    [][ /\ (op'.method \in AccessMethods /\ err' = "none")
           => IF md.simulation # 0
              THEN /\ ret'.id = md.simulation
                   /\ md'.simulation = md.simulation
                   /\ sims' = sims
              ELSE /\ Len(sims') = Len(sims) + 1
                   /\ ret'.id = Len(sims')
                   /\ ret'.id \notin 1..Len(sims)
                   /\ md'.simulation = ret'.id
        /\ (op'.method \notin AccessMethods \/ err' # "none") => sims' = sims
        /\ op'.method = "MdSys.reset" => md'.simulation = 0
      ]_vars

\* C1 witness: after a reset a second simulation was built, and a later
\* access got that same simulation without building anything.
C1_Witness ==
    /\ md.constructed
    /\ resets >= 1
    /\ Len(sims) = 2
    /\ op.method \in AccessMethods
    /\ err = "none"
    /\ ret.made = <<>>
    /\ ret.id = 2
    /\ md.simulation = 2

\* C5: create_integrator with a name other than verlet and langevin, and an
\* MdSys configured with an integrator name or class other than
\* VerletIntegrator and LangevinIntegrator, fail with ValueError, and nothing
\* is constructed.
C5_ValueError ==
    /\ (op.method = "Simulation.create_integrator" /\ op.arg \notin {"verlet", "langevin"})
       => (err = "ValueError" /\ ret = NoRet)
    /\ (/\ op.method = "MdSys.__init__"
        /\ "integrator" \in DOMAIN op.arg
        /\ op.arg["integrator"].name \notin ValidIntegratorClasses)
       => err \in {"none", "ValueError"}
    /\ (/\ md.constructed
        /\ md.integrator_class.name \notin ValidIntegratorClasses
        /\ op.method \in AccessMethods \cup {"MdSys.integrator", "MdSys.context"})
       => (err = "ValueError" /\ ret = NoRet)

\* C6: without dt, friction, temperature or integrator the object holds
\* 2 fs, 91/ps, 298 K and VerletIntegrator; a keyword given replaces its own
\* default only and does not reach the base constructor; integrator() builds
\* Verlet from dt and Langevin from temperature, friction, dt as stored.
C6_Defaults ==
    /\ (op.method = "MdSys.__init__" /\ err = "none")
       => LET kw == op.arg
              own == {"integrator", "dt", "friction", "temperature"}
          IN  /\ md.dt = IF "dt" \in DOMAIN kw THEN kw["dt"]
                         ELSE Quantity("2.0*femtoseconds")
              /\ md.friction = IF "friction" \in DOMAIN kw THEN kw["friction"]
                               ELSE Quantity("91.0/picosecond")
              /\ md.temperature = IF "temperature" \in DOMAIN kw THEN kw["temperature"]
                                  ELSE Quantity("298.0*kelvin")
              /\ md.integrator_class.name =
                     IF "integrator" \in DOMAIN kw THEN kw["integrator"].name
                     ELSE "VerletIntegrator"
              /\ DOMAIN md.base_kwargs = (DOMAIN kw) \ own
              /\ \A k \in DOMAIN md.base_kwargs : md.base_kwargs[k] = kw[k]
    /\ (op.method = "MdSys.integrator" /\ err = "none")
       => /\ md.integrator_class.name = "VerletIntegrator"
             => ret.made = <<[kind |-> "Verlet", args |-> <<md.dt>>]>>
          /\ md.integrator_class.name = "LangevinIntegrator"
             => ret.made = <<[kind |-> "Langevin",
                              args |-> <<md.temperature, md.friction, md.dt>>]>>

\* C6 witness: built with friction only overridden and the Langevin class,
\* integrator() returned Langevin(298 K, 5/ps, 2 fs).
C6_Witness ==
    /\ md.constructed
    /\ op.method = "MdSys.integrator"
    /\ err = "none"
    /\ ret.made = <<[kind |-> "Langevin",
                     args |-> <<Quantity("298.0*kelvin"), Quantity("5.0/picosecond"),
                                Quantity("2.0*femtoseconds")>>]>>

\* C9: masses returns the list of the particle masses, one per particle, in
\* particle order.
C9_Masses ==
    op.method \in {"MdSys.masses", "SystemMixin.masses"}
    => (err = "none" /\ ret.kind = "list" /\ ret.items = op.arg)

----------------------------------------------------------------------------
(* Properties of Simulation (checked under SpecSim) *)

\* C2: no two contexts own the same integrator, and every mm.Context
\* construction was given an integrator that no context owned.
C2_OneIntegratorPerContext ==
    /\ \A c1, c2 \in 1..Len(ctxs) : ctxs[c1].integ = ctxs[c2].integ => c1 = c2
    /\ \A h \in handed : ~h.bound

\* C10: after Simulation(sys, state=file) the context in Simulation.context
\* carries the state of the file.
C10_StateLoaded ==
    (/\ op.method = "Simulation.__init__"
     /\ op.arg = "file"
     /\ err = "none"
     /\ sim.constructed)
    => (ctxs[sim.context].pos = "file" /\ ctxs[sim.context].vel = "file")

====
